---- MODULE Spec2Model ----
(***************************************************************************)
(* A model of the data-access layer of the video-sales application:        *)
(*   - AppwriteSchemaManager (src/src/services/AppwriteSchemaManager.ts,   *)
(*     the class that starts at line 356): initializeSchema and the four   *)
(*     per-collection reconciliations;                                     *)
(*   - VideoService (src/src/services/VideoService.ts): incrementViews,    *)
(*     getAllVideos, getVideo, getVideosWithPagination, getVideoFileUrl.   *)
(* The managed backend (database, file store) is the environment: each of  *)
(* its calls either succeeds with the effect the call asks for or fails    *)
(* with no effect.                                                         *)
(***************************************************************************)
EXTENDS Integers, Sequences, FiniteSets, TLC

VARIABLES
    attrs,      \* backend: collection -> (key -> attribute shape) of the fields it has
    task,       \* caller -> collection -> the state of that ensure...Attributes() call
    run,        \* caller -> the state of that caller's initializeSchema() call
    budget,     \* caller -> how many more times it will call initializeSchema()
    views,      \* backend: the views field of the video record incrementViews is called on
    views0,     \* the value of that field before any call (never changes)
    inc,        \* call -> the state of that incrementViews() call
    documents,  \* backend: the records of the video collection, in listing order
    ret,        \* the catalog call in progress: its arguments and its result
    storageCalls, \* the getFileView calls that call has made, in order
    norm        \* one stored record on its way through normalizeVideo and the duration parser

schemaVars == <<attrs, task, run, budget>>

viewVars == <<views, views0, inc>>

catalogVars == <<documents, ret, storageCalls>>

nonSchemaVars == <<viewVars, catalogVars, norm>>

nonViewVars == <<schemaVars, catalogVars, norm>>

nonCatalogVars == <<schemaVars, viewVars, norm>>

nonNormVars == <<schemaVars, viewVars, catalogVars>>

vars == <<attrs, task, run, budget, views, views0, inc, documents, ret, storageCalls, norm>>

(***************************************************************************)
(* Bounds of the model.                                                    *)
(***************************************************************************)
\* At most this many declared fields are missing from the backend when the
\* schema manager is first run (over the four collections together).
MaxMissing == 1

\* A caller runs initializeSchema at most this many times in a row.
MaxRuns == 2

\* incrementViews is called at most this many times on the record.
MaxCalls == 3

\* The record's view count before the calls is absent or 0..MaxViews0.
MaxViews0 == 1

\* The video collection holds at most this many records.
MaxDocs == 3

\* getVideosWithPagination is called with page in -1..MaxPage and perPage
\* in 1..MaxPerPage.
MaxPage == 3
MaxPerPage == 2

\* The stored durations run over 0..MaxSeconds: every second of a day.
MaxSeconds == 86399

\* The stored numeric prices run over 0..MaxPrice.
MaxPrice == 3

(***************************************************************************)
(* JavaScript values, as far as the services use them.                     *)
(***************************************************************************)
\* A value is its type tag t, its number n (numbers and booleans) and its
\* text s (strings), a sequence of chunks of characters.  NaN is a number.
Undefined == [t |-> "undefined", n |-> 0, s |-> <<>>]
Null == [t |-> "null", n |-> 0, s |-> <<>>]
Num(x) == [t |-> "number", n |-> x, s |-> <<>>]
NaN == [t |-> "NaN", n |-> 0, s |-> <<>>]
Bool(b) == [t |-> "boolean", n |-> IF b THEN 1 ELSE 0, s |-> <<>>]
Str(chunks) == [t |-> "string", n |-> 0, s |-> chunks]

\* typeof v === 'number'
IsNumber(v) == v.t \in {"number", "NaN"}

\* ToBoolean(v) is false: undefined, null, 0, NaN, false and "".
Falsy(v) ==
    \/ v.t \in {"undefined", "null", "NaN"}
    \/ (v.t \in {"number", "boolean"} /\ v.n = 0)
    \/ (v.t = "string" /\ v.s = <<>>)

\* a || b
Or(a, b) == IF Falsy(a) THEN b ELSE a

\* v || null
OrNull(v) == IF Falsy(v) THEN Null ELSE v

(***************************************************************************)
(* The declared fields (the requiredAttributes literals).                  *)
(***************************************************************************)
Collections == {"videos", "siteConfig", "users", "sessions"}

Attr(key, type, required) ==
    [key |-> key, type |-> type, required |-> required,
     defaultValue |-> Undefined, min |-> Undefined, max |-> Undefined,
     array |-> Undefined]

VideoAttributes ==
    << Attr("title", "string", TRUE),
       Attr("description", "string", FALSE),
       [Attr("price", "double", TRUE) EXCEPT !.min = Num(0)],
       [Attr("duration", "integer", FALSE) EXCEPT !.min = Num(0)],
       Attr("video_id", "string", FALSE),
       Attr("thumbnail_id", "string", FALSE),
       Attr("created_at", "datetime", FALSE),
       [Attr("is_active", "boolean", FALSE) EXCEPT !.defaultValue = Bool(TRUE)],
       [Attr("views", "integer", FALSE) EXCEPT !.min = Num(0), !.defaultValue = Num(0)],
       Attr("product_link", "string", FALSE) >>

SiteConfigAttributes ==
    << Attr("site_name", "string", TRUE),
       Attr("paypal_client_id", "string", FALSE),
       Attr("stripe_publishable_key", "string", FALSE),
       Attr("stripe_secret_key", "string", FALSE),
       Attr("telegram_username", "string", FALSE),
       Attr("video_list_title", "string", FALSE),
       [Attr("crypto", "string[]", FALSE) EXCEPT !.array = Bool(TRUE)],
       Attr("email_host", "string", FALSE),
       Attr("email_port", "string", FALSE),
       Attr("email_secure", "boolean", FALSE),
       Attr("email_user", "string", FALSE),
       Attr("email_pass", "string", FALSE),
       Attr("email_from", "string", FALSE) >>

UserAttributes ==
    << Attr("email", "string", TRUE),
       Attr("name", "string", TRUE),
       Attr("password", "string", TRUE),
       Attr("created_at", "datetime", FALSE) >>

SessionAttributes ==
    << Attr("user_id", "string", TRUE),
       Attr("token", "string", TRUE),
       Attr("expires_at", "datetime", TRUE),
       Attr("created_at", "datetime", FALSE),
       Attr("ip_address", "string", FALSE),
       Attr("user_agent", "string", FALSE) >>

requiredAttributes(c) ==
    CASE c = "videos" -> VideoAttributes
      [] c = "siteConfig" -> SiteConfigAttributes
      [] c = "users" -> UserAttributes
      [] c = "sessions" -> SessionAttributes

DeclaredKeys(c) == {requiredAttributes(c)[i].key : i \in 1..Len(requiredAttributes(c))}

(***************************************************************************)
(* The create-field calls.  A call is the method and the arguments after   *)
(* the database and collection identifiers; NoCall is "no method is        *)
(* called" (a type no case of the switch matches).                         *)
(***************************************************************************)
Call(method, a, default, min, max, size, array) ==
    [method |-> method, key |-> a.key, required |-> a.required,
     default |-> default, min |-> min, max |-> max, size |-> size, array |-> array]

NoCall ==
    [method |-> "none", key |-> "", required |-> FALSE,
     default |-> Undefined, min |-> Undefined, max |-> Undefined,
     size |-> Undefined, array |-> Undefined]

StringSize == 255

createStringAttribute(a) ==
    Call("createStringAttribute", a, OrNull(a.defaultValue), Undefined, Undefined,
         Num(StringSize), Undefined)

createStringArrayAttribute(a) ==
    Call("createStringAttribute", a, Null, Undefined, Undefined, Num(StringSize), a.array)

createIntegerAttribute(a) ==
    Call("createIntegerAttribute", a, OrNull(a.defaultValue), OrNull(a.min), OrNull(a.max),
         Undefined, Undefined)

createFloatAttribute(a) ==
    Call("createFloatAttribute", a, OrNull(a.defaultValue), OrNull(a.min), OrNull(a.max),
         Undefined, Undefined)

createBooleanAttribute(a) ==
    Call("createBooleanAttribute", a, OrNull(a.defaultValue), Undefined, Undefined,
         Undefined, Undefined)

createDatetimeAttribute(a) ==
    Call("createDatetimeAttribute", a, OrNull(a.defaultValue), Undefined, Undefined,
         Undefined, Undefined)

\* The switch of ensureVideoCollectionAttributes.
VideoCreateCall(a) ==
    CASE a.type = "string" -> createStringAttribute(a)
      [] a.type = "integer" -> createIntegerAttribute(a)
      [] a.type = "double" -> createFloatAttribute(a)
      [] a.type = "boolean" -> createBooleanAttribute(a)
      [] a.type = "datetime" -> createDatetimeAttribute(a)
      [] OTHER -> NoCall

\* The if / switch of ensureSiteConfigCollectionAttributes.
SiteConfigCreateCall(a) ==
    IF a.type = "string[]" THEN createStringArrayAttribute(a)
    ELSE CASE a.type = "string" -> createStringAttribute(a)
           [] a.type = "boolean" -> createBooleanAttribute(a)
           [] OTHER -> NoCall

\* Mutant: the switch has no datetime case.
UserCreateCallNoDatetime(a) ==
    CASE a.type = "string" -> createStringAttribute(a)
      [] OTHER -> NoCall

\* The switch of ensureUserCollectionAttributes.
UserCreateCall(a) ==
    CASE a.type = "string" -> createStringAttribute(a)
      [] a.type = "datetime" -> createDatetimeAttribute(a)
      [] OTHER -> NoCall

\* The switch of ensureSessionCollectionAttributes.
SessionCreateCall(a) ==
    CASE a.type = "string" -> createStringAttribute(a)
      [] a.type = "datetime" -> createDatetimeAttribute(a)
      [] OTHER -> NoCall

CreateCall(c, a) ==
    CASE c = "videos" -> VideoCreateCall(a)
      [] c = "siteConfig" -> SiteConfigCreateCall(a)
      [] c = "users" -> UserCreateCall(a)
      [] c = "sessions" -> SessionCreateCall(a)

(***************************************************************************)
(* One reconciliation (ensure...CollectionAttributes).                     *)
(*   pc: "idle"            not called                                      *)
(*       "listAttributes"  awaiting the field list                         *)
(*       "create"          awaiting the create-field call for field idx    *)
(*       "sleep"           awaiting the 1000 ms timer after field idx      *)
(*       "done"            returned after "... attributes verified"        *)
(*       "caught"          returned from the catch block                   *)
(*       "rejected"        its promise rejected (the code has no such path)*)
(*   existing: the keys of the field list it fetched                       *)
(*   issued:   the create-field calls it has made, in order                *)
(*   failed:   one of its backend calls failed                             *)
(***************************************************************************)
IdleTask == [pc |-> "idle", existing |-> {}, idx |-> 0, issued |-> <<>>, failed |-> FALSE]

\* Mutant: existing.key === attr.type
AttrExistsByType(existing, a) == a.type \in existing

\* existingAttributes.some(existing => existing.key === attr.key)
AttrExists(existing, a) == a.key \in existing

\* A loop that looked at the collection again before each create-field call.
RECURSIVE LoopRecheck(_, _, _)
LoopRecheck(c, t, i) ==
    IF i > Len(requiredAttributes(c)) THEN [t EXCEPT !.pc = "done", !.idx = i]
    ELSE LET a == requiredAttributes(c)[i] IN
         IF AttrExists(t.existing \cup DOMAIN attrs[c], a) THEN LoopRecheck(c, t, i + 1)
         ELSE IF CreateCall(c, a) = NoCall THEN [t EXCEPT !.pc = "sleep", !.idx = i]
         ELSE [t EXCEPT !.pc = "create", !.idx = i,
                        !.issued = Append(@, CreateCall(c, a))]

\* The for loop from position i on, up to its next await: the fields that
\* exist are passed over; at the first missing one the create-field call is
\* made (or, when no case matches its type, only the timer is started); at
\* the end of the list the function returns.
RECURSIVE Loop(_, _, _)
Loop(c, t, i) ==
    IF i > Len(requiredAttributes(c)) THEN [t EXCEPT !.pc = "done", !.idx = i]
    ELSE LET a == requiredAttributes(c)[i] IN
         IF AttrExists(t.existing, a) THEN Loop(c, t, i + 1)
         ELSE IF CreateCall(c, a) = NoCall THEN [t EXCEPT !.pc = "sleep", !.idx = i]
         ELSE [t EXCEPT !.pc = "create", !.idx = i,
                        !.issued = Append(@, CreateCall(c, a))]

\* Mutant: the catch block rethrows.
EnsureRethrow(t) == [t EXCEPT !.pc = "rejected", !.failed = TRUE]

\* The catch block of a reconciliation: the error is logged and the function
\* returns normally.
EnsureCatch(t) == [t EXCEPT !.pc = "caught", !.failed = TRUE]

(***************************************************************************)
(* The backend's side of a create-field call: the field the call describes.*)
(***************************************************************************)
Shape(call) ==
    [method |-> call.method, required |-> call.required, default |-> call.default,
     min |-> call.min, max |-> call.max, size |-> call.size, array |-> call.array]

\* A field that was in the collection before the schema manager ever ran.
Preexisting ==
    [method |-> "preexisting", required |-> FALSE, default |-> Null,
     min |-> Undefined, max |-> Undefined, size |-> Undefined, array |-> Undefined]

\* A field of the videos collection that the schema manager does not declare.
UndeclaredKey == "videoFileId"

Callers == {1, 2}

(***************************************************************************)
(* Actions of the schema manager.                                          *)
(***************************************************************************)
\* initializeSchema(): the four reconciliations are called in the array
\* literal, each running up to its listAttributes call; then Promise.all
\* is awaited.  A caller calls again only after its previous call returned.
InitializeSchema(r) ==
    /\ budget[r] > 0
    /\ run[r].pc \in {"idle", "returned"}
    /\ budget' = [budget EXCEPT ![r] = @ - 1]
    /\ run' = [run EXCEPT ![r] =
                  [pc |-> "awaiting",
                   runNo |-> @.runNo + 1,
                   prevClean |-> @.pc = "returned"
                                 /\ \A c \in Collections : ~task[r][c].failed]]
    /\ task' = [task EXCEPT ![r] = [c \in Collections |->
                                       [IdleTask EXCEPT !.pc = "listAttributes"]]]
    /\ UNCHANGED <<attrs, nonSchemaVars>>

\* Mutant: the users reconciliation lists the fields of the videos collection.
ListedCollectionPasted(c) == IF c = "users" THEN "videos" ELSE c

\* The collection whose field list the reconciliation of c asks for.
ListedCollection(c) == c

\* listAttributes answers: the snapshot is taken and the loop starts.
ListAttributesOk(r, c) ==
    /\ task[r][c].pc = "listAttributes"
    /\ task' = [task EXCEPT ![r][c] =
                   Loop(c, [@ EXCEPT !.existing = DOMAIN attrs[ListedCollection(c)]], 1)]
    /\ UNCHANGED <<attrs, run, budget, nonSchemaVars>>

\* listAttributes fails.
ListAttributesFail(r, c) ==
    /\ task[r][c].pc = "listAttributes"
    /\ task' = [task EXCEPT ![r][c] = EnsureCatch(@)]
    /\ UNCHANGED <<attrs, run, budget, nonSchemaVars>>

\* The create-field call succeeds: the backend adds the field.  The backend
\* refuses to create a key the collection already has.
CreateOk(r, c) ==
    LET t == task[r][c]
        call == t.issued[Len(t.issued)]
    IN /\ t.pc = "create"
       /\ call.key \notin DOMAIN attrs[c]
       /\ attrs' = [attrs EXCEPT ![c] = (call.key :> Shape(call)) @@ @]
       /\ task' = [task EXCEPT ![r][c].pc = "sleep"]
       /\ UNCHANGED <<run, budget, nonSchemaVars>>

\* A failed create-field call caught inside the loop: the loop would go on
\* with the next field after the timer.
CreateFailContinue(r, c) ==
    /\ task[r][c].pc = "create"
    /\ task' = [task EXCEPT ![r][c].pc = "sleep", ![r][c].failed = TRUE]
    /\ UNCHANGED <<attrs, run, budget, nonSchemaVars>>

\* The create-field call fails: nothing is created.
CreateFail(r, c) ==
    /\ task[r][c].pc = "create"
    /\ task' = [task EXCEPT ![r][c] = EnsureCatch(@)]
    /\ UNCHANGED <<attrs, run, budget, nonSchemaVars>>

\* The 1000 ms timer fires: the loop goes on with the next field.
Wake(r, c) ==
    /\ task[r][c].pc = "sleep"
    /\ task' = [task EXCEPT ![r][c] = Loop(c, @, @.idx + 1)]
    /\ UNCHANGED <<attrs, run, budget, nonSchemaVars>>

\* Promise.all([...]): rejects as soon as one promise has rejected, resolves
\* when all four have resolved.
PromiseAll(ts) ==
    IF \E c \in Collections : ts[c].pc = "rejected" THEN "rejected"
    ELSE IF \A c \in Collections : ts[c].pc \in {"done", "caught"} THEN "resolved"
    ELSE "pending"

\* initializeSchema() after its await: returns, or logs and rethrows.
InitializeSchemaSettle(r) ==
    /\ run[r].pc = "awaiting"
    /\ PromiseAll(task[r]) # "pending"
    /\ run' = [run EXCEPT ![r].pc =
                  IF PromiseAll(task[r]) = "resolved" THEN "returned" ELSE "raised"]
    /\ UNCHANGED <<attrs, task, budget, nonSchemaVars>>

NextSchema ==
    \/ \E r \in Callers : InitializeSchema(r)
    \/ \E r \in Callers, c \in Collections : ListAttributesOk(r, c)
    \/ \E r \in Callers, c \in Collections : ListAttributesFail(r, c)
    \/ \E r \in Callers, c \in Collections : CreateOk(r, c)
    \/ \E r \in Callers, c \in Collections : CreateFail(r, c)
    \/ \E r \in Callers, c \in Collections : Wake(r, c)
    \/ \E r \in Callers : InitializeSchemaSettle(r)

(***************************************************************************)
(* VideoService.incrementViews.  All calls are on the same video record.   *)
(*   pc: "idle"            not called                                      *)
(*       "getDocument"     awaiting the record                             *)
(*       "updateDocument"  awaiting the update of its views field          *)
(*       "returned"        returned to its caller                          *)
(*       "raised"          raised to its caller (the code has no such path)*)
(*   currentViews: the count it computed from the record it read           *)
(*   updated:  it has issued its updateDocument call                       *)
(*   failedAt: the backend call of it that failed, "" when none has        *)
(*   before, after: the stored value when it was called and when it ended  *)
(*   overlapped: another call was in progress while this one was           *)
(***************************************************************************)
Calls == 1..MaxCalls

IdleInc ==
    [pc |-> "idle", currentViews |-> 0, updated |-> FALSE, failedAt |-> "",
     before |-> Undefined, after |-> Undefined, overlapped |-> FALSE]

InProgress(k) == inc[k].pc \in {"getDocument", "updateDocument"}

\* Mutant: video.views || 1
CurrentViewsOrOne(v) == IF Falsy(v) THEN 1 ELSE v.n

\* video.views || 0
CurrentViews(v) == IF Falsy(v) THEN 0 ELSE v.n

\* Mutant: the backend increments the value it holds.
UpdatedViewsAtomic(currentViews, stored) == Num((IF Falsy(stored) THEN 0 ELSE stored.n) + 1)

\* An update that wrote back the count it read.
UpdatedViewsUnchanged(currentViews, stored) == Num(currentViews)

\* The value written: { views: currentViews + 1 }.  `stored` is the value
\* the backend holds when the update arrives, which the code does not use.
UpdatedViews(currentViews, stored) == Num(currentViews + 1)

\* Mutant: the catch block rethrows.
IncrementRethrow(i, call) == [i EXCEPT !.pc = "raised", !.failedAt = call,
                                       !.after = views]

\* The catch block of incrementViews: the error is logged, the call returns.
IncrementCatch(i, call) == [i EXCEPT !.pc = "returned", !.failedAt = call,
                                     !.after = views]

\* incrementViews(videoId) is called and runs up to its getDocument call.
IncrementViews(k) ==
    /\ inc[k].pc = "idle"
    /\ inc' = [j \in Calls |->
                 IF j = k
                 THEN [inc[k] EXCEPT !.pc = "getDocument", !.before = views,
                                     !.overlapped = \E o \in Calls : InProgress(o)]
                 ELSE IF InProgress(j) THEN [inc[j] EXCEPT !.overlapped = TRUE]
                 ELSE inc[j]]
    /\ UNCHANGED <<views, views0, nonViewVars>>

\* getDocument answers with the record: the count is read and the update
\* is issued.
GetDocumentOk(k) ==
    /\ inc[k].pc = "getDocument"
    /\ inc' = [inc EXCEPT ![k].pc = "updateDocument",
                          ![k].currentViews = CurrentViews(views),
                          ![k].updated = TRUE]
    /\ UNCHANGED <<views, views0, nonViewVars>>

\* getDocument fails.
GetDocumentFail(k) ==
    /\ inc[k].pc = "getDocument"
    /\ inc' = [inc EXCEPT ![k] = IncrementCatch(@, "getDocument")]
    /\ UNCHANGED <<views, views0, nonViewVars>>

\* updateDocument succeeds: the backend stores the value the call carries.
UpdateDocumentOk(k) ==
    /\ inc[k].pc = "updateDocument"
    /\ views' = UpdatedViews(inc[k].currentViews, views)
    /\ inc' = [inc EXCEPT ![k].pc = "returned", ![k].after = views']
    /\ UNCHANGED <<views0, nonViewVars>>

\* updateDocument fails: the backend stores nothing.
UpdateDocumentFail(k) ==
    /\ inc[k].pc = "updateDocument"
    /\ inc' = [inc EXCEPT ![k] = IncrementCatch(@, "updateDocument")]
    /\ UNCHANGED <<views, views0, nonViewVars>>

NextViews ==
    \/ \E k \in Calls : IncrementViews(k)
    \/ \E k \in Calls : GetDocumentOk(k)
    \/ \E k \in Calls : GetDocumentFail(k)
    \/ \E k \in Calls : UpdateDocumentOk(k)
    \/ \E k \in Calls : UpdateDocumentFail(k)

(***************************************************************************)
(* Strings and numbers, as far as VideoService uses them.                  *)
(***************************************************************************)
Digits == <<"0", "1", "2", "3", "4", "5", "6", "7", "8", "9">>

IsDigit(ch) == \E d \in 1..10 : Digits[d] = ch

DigitValue(ch) == (CHOOSE d \in 1..10 : Digits[d] = ch) - 1

\* n.toString() for an integer n >= 0, one chunk per digit.
RECURSIVE NumberToString(_)
NumberToString(n) == IF n < 10 THEN <<Digits[n + 1]>> ELSE Append(NumberToString(n \div 10), Digits[(n % 10) + 1])

\* str.padStart(2, '0')
PadStart2(str) == IF Len(str) < 2 THEN <<"0">> \o str ELSE str

\* The value of a string of digits.
RECURSIVE DigitsValue(_)
DigitsValue(str) ==
    IF str = <<>> THEN 0
    ELSE 10 * DigitsValue(SubSeq(str, 1, Len(str) - 1)) + DigitValue(str[Len(str)])

\* Number(str): "" is 0, a string of digits its value, any other text NaN.
ToNumber(str) == IF \A i \in 1..Len(str) : IsDigit(str[i]) THEN Num(DigitsValue(str)) ELSE NaN

\* The longest prefix of digits of a string.
RECURSIVE DigitPrefix(_)
DigitPrefix(str) ==
    IF str = <<>> \/ ~IsDigit(str[1]) THEN <<>>
    ELSE <<str[1]>> \o DigitPrefix(SubSeq(str, 2, Len(str)))

\* parseFloat(v): the number the text starts with, NaN when it starts with none.
parseFloat(v) ==
    IF v.t = "string" /\ DigitPrefix(v.s) # <<>> THEN Num(DigitsValue(DigitPrefix(v.s)))
    ELSE IF v.t = "number" THEN v
    ELSE NaN

\* str.split(':')
RECURSIVE Split(_)
Split(str) ==
    IF \A i \in 1..Len(str) : str[i] # ":" THEN <<str>>
    ELSE LET i == CHOOSE i \in 1..Len(str) : str[i] = ":" /\ \A j \in 1..(i - 1) : str[j] # ":"
         IN <<SubSeq(str, 1, i - 1)>> \o Split(SubSeq(str, i + 1, Len(str)))

\* a + b, a - b and a * b on numbers.
Add(a, b) == IF a.t = "NaN" \/ b.t = "NaN" THEN NaN ELSE Num(a.n + b.n)
Sub(a, b) == IF a.t = "NaN" \/ b.t = "NaN" THEN NaN ELSE Num(a.n - b.n)
Mul(a, b) == IF a.t = "NaN" \/ b.t = "NaN" THEN NaN ELSE Num(a.n * b.n)

UpperCase == <<"A", "B", "C", "D", "E", "F", "G", "H", "I", "J", "K", "L", "M",
               "N", "O", "P", "Q", "R", "S", "T", "U", "V", "W", "X", "Y", "Z">>
LowerCase == <<"a", "b", "c", "d", "e", "f", "g", "h", "i", "j", "k", "l", "m",
               "n", "o", "p", "q", "r", "s", "t", "u", "v", "w", "x", "y", "z">>

\* str.toLowerCase()
toLowerCase(str) ==
    [i \in 1..Len(str) |->
        IF \E u \in 1..26 : UpperCase[u] = str[i]
        THEN LowerCase[CHOOSE u \in 1..26 : UpperCase[u] = str[i]]
        ELSE str[i]]

\* str.trim()
RECURSIVE trim(_)
trim(str) ==
    IF str = <<>> THEN str
    ELSE IF str[1] = " " THEN trim(SubSeq(str, 2, Len(str)))
    ELSE IF str[Len(str)] = " " THEN trim(SubSeq(str, 1, Len(str) - 1))
    ELSE str

\* hay.includes(needle)
includes(hay, needle) ==
    \E i \in 1..(Len(hay) + 1) :
        /\ i + Len(needle) - 1 <= Len(hay)
        /\ SubSeq(hay, i, i + Len(needle) - 1) = needle

(***************************************************************************)
(* VideoService.normalizeVideo.                                            *)
(***************************************************************************)
\* The duration text of a number of seconds (a non-negative integer).
\* The HH:MM:SS branch printing the minutes without taking out the hours.
FormatDurationWholeMinutes(totalSeconds) ==
    LET minutes == totalSeconds \div 60
        seconds == totalSeconds % 60
    IN IF minutes < 60
       THEN PadStart2(NumberToString(minutes)) \o <<":">> \o PadStart2(NumberToString(seconds))
       ELSE LET hours == minutes \div 60
            IN PadStart2(NumberToString(hours)) \o <<":">> \o PadStart2(NumberToString(minutes))
               \o <<":">> \o PadStart2(NumberToString(seconds))

FormatDuration(totalSeconds) ==
    LET minutes == totalSeconds \div 60
        seconds == totalSeconds % 60
    IN IF minutes < 60
       THEN PadStart2(NumberToString(minutes)) \o <<":">> \o PadStart2(NumberToString(seconds))
       ELSE LET hours == minutes \div 60
                remainingMinutes == minutes % 60
            IN PadStart2(NumberToString(hours)) \o <<":">> \o PadStart2(NumberToString(remainingMinutes))
               \o <<":">> \o PadStart2(NumberToString(seconds))

ZeroDuration == Str(<<"0", "0", ":", "0", "0">>)

Untitled == Str(<<"U", "n", "t", "i", "t", "l", "e", "d">>)

\* new Date().toISOString(): the time of the call, later than any stored time.
IsoPrefix == "2024-01-0"
Now == Str(<<IsoPrefix, "9">>)

normalizeVideo(video) ==
    LET formattedDuration ==
            IF video.duration.t = "number" THEN Str(FormatDuration(video.duration.n))
            ELSE ZeroDuration
    IN [id |-> video.id,
        title |-> Or(video.title, Untitled),
        description |-> Or(video.description, Str(<<>>)),
        price |-> IF IsNumber(video.price) THEN video.price
                  ELSE parseFloat(Or(video.price, Str(<<"0">>))),
        duration |-> IF Falsy(video.duration) THEN ZeroDuration ELSE formattedDuration,
        videoFileId |-> Or(video.video_id, Null),
        video_id |-> Or(video.video_id, Null),
        thumbnailFileId |-> Or(video.thumbnail_id, Null),
        thumbnail_id |-> Or(video.thumbnail_id, Null),
        thumbnailUrl |-> Or(video.thumbnailUrl, Null),
        isPurchased |-> Or(video.isPurchased, Bool(FALSE)),
        createdAt |-> Or(video.created_at, Now),
        views |-> IF IsNumber(video.views) THEN video.views ELSE Num(0),
        product_link |-> Or(video.product_link, Str(<<>>))]

(***************************************************************************)
(* The file store and the thumbnail resolution of getAllVideos / getVideo. *)
(***************************************************************************)
thumbnailsBucketId == "thumbnails"

videosBucketId == "videos"

PlaceholderUrl == Str(<<"https://via.placeholder.com/300x180?text=Video+Thumbnail">>)

\* storage.getFileView(bucket, fileId).href when the call succeeds.
FileViewHref(bucket, fileId) == Str(<<"https://backend/storage/", bucket, "/">> \o fileId.s \o <<"/view">>)

\* The reference the service resolves: video.thumbnailFileId || video.thumbnail_id
ThumbnailId(video) == Or(video.thumbnailFileId, video.thumbnail_id)

\* The thumbnail loop without the fallback of its catch block: a failed
\* getFileView leaves the video as normalizeVideo made it.
ResolveThumbnailNoFallback(video, failing) ==
    IF ~Falsy(ThumbnailId(video))
    THEN IF ThumbnailId(video) \in failing
         THEN video
         ELSE [video EXCEPT !.thumbnailUrl = FileViewHref(thumbnailsBucketId, ThumbnailId(video))]
    ELSE [video EXCEPT !.thumbnailUrl = PlaceholderUrl]

\* The body of the thumbnail loop for one video; `failing` are the files
\* whose getFileView call fails.
ResolveThumbnail(video, failing) ==
    IF ~Falsy(ThumbnailId(video))
    THEN IF ThumbnailId(video) \in failing
         THEN [video EXCEPT !.thumbnailUrl = PlaceholderUrl]
         ELSE [video EXCEPT !.thumbnailUrl = FileViewHref(thumbnailsBucketId, ThumbnailId(video))]
    ELSE [video EXCEPT !.thumbnailUrl = PlaceholderUrl]

\* The getFileView calls of the thumbnail loop over `videos`, in order.
RECURSIVE ThumbnailCalls(_)
ThumbnailCalls(videos) ==
    IF videos = <<>> THEN <<>>
    ELSE (IF ~Falsy(ThumbnailId(videos[1]))
          THEN <<[bucket |-> thumbnailsBucketId, fileId |-> ThumbnailId(videos[1])]>>
          ELSE <<>>)
         \o ThumbnailCalls(Tail(videos))

(***************************************************************************)
(* Search and sort of getAllVideos.                                        *)
(***************************************************************************)
\* searchQuery && searchQuery.trim() !== ''
HasQuery(searchQuery) == ~Falsy(searchQuery) /\ trim(searchQuery.s) # <<>>

Matches(video, searchQuery) ==
    LET trimmedQuery == toLowerCase(trim(searchQuery.s))
    IN \/ includes(toLowerCase(video.title.s), trimmedQuery)
       \/ includes(toLowerCase(video.description.s), trimmedQuery)

\* videos.filter(...)
RECURSIVE FilterVideos(_, _)
FilterVideos(videos, searchQuery) ==
    IF videos = <<>> THEN <<>>
    ELSE (IF Matches(videos[1], searchQuery) THEN <<videos[1]>> ELSE <<>>)
         \o FilterVideos(Tail(videos), searchQuery)

\* new Date(createdAt).getTime()
getTime(createdAt) ==
    IF createdAt.t = "string" /\ Len(createdAt.s) = 2 /\ createdAt.s[1] = IsoPrefix
       /\ IsDigit(createdAt.s[2])
    THEN Num(DigitValue(createdAt.s[2]))
    ELSE NaN

\* getDurationInSeconds of the DURATION_DESC comparator.
getDurationInSeconds(duration) ==
    LET parts == [i \in 1..Len(Split(duration.s)) |-> ToNumber(Split(duration.s)[i])]
    IN IF Len(parts) = 2 THEN Add(Mul(parts[1], Num(60)), parts[2])
       ELSE IF Len(parts) = 3
            THEN Add(Add(Mul(parts[1], Num(3600)), Mul(parts[2], Num(60))), parts[3])
       ELSE Num(0)

SortOptions == {"newest", "price_asc", "price_desc", "views_desc", "duration_desc"}

\* The value of the comparator passed to videos.sort for a sort option.
Comparator(sortOption, a, b) ==
    CASE sortOption = "newest" -> Sub(getTime(b.createdAt), getTime(a.createdAt))
      [] sortOption = "price_asc" -> Sub(a.price, b.price)
      [] sortOption = "price_desc" -> Sub(b.price, a.price)
      [] sortOption = "views_desc" -> Sub(Or(b.views, Num(0)), Or(a.views, Num(0)))
      [] sortOption = "duration_desc" ->
            Sub(getDurationInSeconds(b.duration), getDurationInSeconds(a.duration))

\* Array.prototype.sort is stable and reads a NaN comparator value as 0: x
\* goes before the first element the comparator puts after it.
RECURSIVE InsertSorted(_, _, _)
InsertSorted(sorted, x, sortOption) ==
    IF sorted = <<>> THEN <<x>>
    ELSE LET c == Comparator(sortOption, sorted[1], x)
         IN IF c.t = "number" /\ c.n > 0 THEN <<x>> \o sorted
            ELSE <<sorted[1]>> \o InsertSorted(Tail(sorted), x, sortOption)

RECURSIVE SortVideos(_, _)
SortVideos(videos, sortOption) ==
    IF videos = <<>> THEN <<>>
    ELSE InsertSorted(SortVideos(SubSeq(videos, 1, Len(videos) - 1), sortOption),
                      videos[Len(videos)], sortOption)

(***************************************************************************)
(* Pagination arithmetic of getVideosWithPagination.                       *)
(***************************************************************************)
\* Math.ceil(length / perPage) for perPage >= 1.
TotalPages(length, perPage) == (length + perPage - 1) \div perPage

Max(a, b) == IF a > b THEN a ELSE b
Min(a, b) == IF a < b THEN a ELSE b

\* array.slice(start, end): a negative index counts from the end.
slice(array, start, end) ==
    LET len == Len(array)
        k == IF start < 0 THEN Max(len + start, 0) ELSE Min(start, len)
        final == IF end < 0 THEN Max(len + end, 0) ELSE Min(end, len)
    IN SubSeq(array, k + 1, final)

StartIndex(page, perPage) == (page - 1) * perPage

\* An end index that stops one element short of the window.
EndIndexShort(page, perPage) == StartIndex(page, perPage) + perPage - 1

EndIndex(page, perPage) == StartIndex(page, perPage) + perPage

(***************************************************************************)
(* The stored video records.                                               *)
(***************************************************************************)
EmptyDocument ==
    [id |-> Undefined, title |-> Undefined, description |-> Undefined,
     price |-> Undefined, duration |-> Undefined, video_id |-> Undefined,
     videoFileId |-> Undefined, thumbnail_id |-> Undefined,
     thumbnailFileId |-> Undefined, thumbnailUrl |-> Undefined,
     isPurchased |-> Undefined, created_at |-> Undefined, views |-> Undefined,
     product_link |-> Undefined]

\* The records a collection is made of: a fully populated one, one with no
\* field at all, one that uses the older field names, one with a price
\* stored as text that is not a number and a zero duration.
DocumentPool ==
    << [EmptyDocument EXCEPT
           !.title = Str(<<"C", "a", "t">>), !.description = Str(<<"a">>),
           !.price = Num(30), !.duration = Num(75),
           !.video_id = Str(<<"v1">>), !.thumbnail_id = Str(<<"t1">>),
           !.created_at = Str(<<IsoPrefix, "3">>), !.views = Num(5),
           !.product_link = Str(<<"https://shop/1">>)],
       EmptyDocument,
       [EmptyDocument EXCEPT
           !.title = Str(<<"D", "o", "g">>), !.description = Str(<<"c", "a", "t">>),
           !.price = Num(10), !.duration = Num(3700),
           !.videoFileId = Str(<<"v2">>), !.thumbnailFileId = Str(<<"t2">>),
           !.created_at = Str(<<IsoPrefix, "1">>), !.views = Num(0)],
       [EmptyDocument EXCEPT
           !.title = Str(<<"b">>),
           !.price = Str(<<"a", "b", "c">>), !.duration = Num(0),
           !.video_id = Str(<<"v2">>), !.thumbnail_id = Str(<<"t2">>),
           !.created_at = Str(<<IsoPrefix, "2">>), !.views = Num(7)] >>

\* The collections: up to MaxDocs different records of the pool in any
\* order, the $id of a record being its position.
RECURSIVE PoolSequences(_)
PoolSequences(n) ==
    IF n = 0 THEN {<<>>}
    ELSE LET shorter == PoolSequences(n - 1)
         IN shorter \cup {Append(q, k) : q \in {q \in shorter : Len(q) = n - 1},
                                          k \in 1..Len(DocumentPool)}

DocumentId(i) == Str(NumberToString(i))

VideoCollections ==
    {[i \in 1..Len(q) |-> [DocumentPool[q[i]] EXCEPT !.id = DocumentId(i)]] :
        q \in {q \in PoolSequences(MaxDocs) :
                  \A i, j \in 1..Len(q) : q[i] = q[j] => i = j}}

ThumbnailFiles == {Str(<<"t1">>), Str(<<"t2">>)}
VideoFiles == {Str(<<"v1">>), Str(<<"v2">>)}

Queries == {Str(<<>>), Str(<<" ">>), Str(<<" ", "C", "A", "T", " ">>)}

(***************************************************************************)
(* The operations of VideoService over a collection `docs`.  `fetchFails`  *)
(* says that the database call fails, `failing` which files' getFileView   *)
(* calls fail.  Each yields its outcome ("returned" or "raised"), its      *)
(* result and the getFileView calls it made.                               *)
(***************************************************************************)
Result(outcome, videos, calls) ==
    [outcome |-> outcome, videos |-> videos, totalPages |-> 0, all |-> <<>>,
     video |-> <<>>, url |-> Null, calls |-> calls]

\* A catch block of getAllVideos that swallowed the error and returned no
\* video would look like this.
GetAllVideosSwallow == Result("returned", <<>>, <<>>)

\* The catch block of getAllVideos: the error is logged and thrown again.
GetAllVideosCatch == Result("raised", <<>>, <<>>)

getAllVideos(docs, sortOption, searchQuery, fetchFails, failing) ==
    IF fetchFails THEN GetAllVideosCatch
    ELSE LET normalized == [i \in 1..Len(docs) |-> normalizeVideo(docs[i])]
             filtered == IF HasQuery(searchQuery)
                         THEN FilterVideos(normalized, searchQuery)
                         ELSE normalized
             resolved == [i \in 1..Len(filtered) |-> ResolveThumbnail(filtered[i], failing)]
         IN Result("returned", SortVideos(resolved, sortOption), ThumbnailCalls(filtered))

\* A catch block of getVideo that threw the error again, as the one of
\* getAllVideos does.
GetVideoRethrow == Result("raised", <<>>, <<>>)

\* The catch block of getVideo: the error is logged and null returned.
GetVideoCatch == Result("returned", <<>>, <<>>)

\* databases.getDocument fails when no record has the identifier.
getVideo(docs, videoId, fetchFails, failing) ==
    IF fetchFails \/ ~\E i \in 1..Len(docs) : docs[i].id = videoId THEN GetVideoCatch
    ELSE LET videoDoc == docs[CHOOSE i \in 1..Len(docs) : docs[i].id = videoId]
             video == normalizeVideo(videoDoc)
         IN [Result("returned", <<>>, ThumbnailCalls(<<video>>)) EXCEPT
                !.video = <<ResolveThumbnail(video, failing)>>]

\* The catch block of getVideosWithPagination: logs and throws again.
PaginationCatch(calls) == Result("raised", <<>>, calls)

getVideosWithPagination(docs, page, perPage, sortOption, searchQuery, fetchFails, failing) ==
    LET listed == getAllVideos(docs, sortOption, searchQuery, fetchFails, failing)
        allVideos == listed.videos
    IN IF listed.outcome = "raised" THEN PaginationCatch(listed.calls)
       ELSE [Result("returned",
                    slice(allVideos, StartIndex(page, perPage), EndIndex(page, perPage)),
                    listed.calls)
               EXCEPT !.totalPages = TotalPages(Len(allVideos), perPage),
                      !.all = allVideos]

getVideoFileUrl(docs, videoId, fetchFails, failing) ==
    LET got == getVideo(docs, videoId, fetchFails, failing)
    IN IF got.video = <<>> THEN Result("returned", <<>>, got.calls)
       ELSE LET video == got.video[1]
                videoFileId == Or(video.video_id, video.videoFileId)
            IN IF Falsy(videoFileId) THEN Result("returned", <<>>, got.calls)
               ELSE LET calls == Append(got.calls,
                                        [bucket |-> videosBucketId, fileId |-> videoFileId])
                    IN IF videoFileId \in failing THEN Result("returned", <<>>, calls)
                       ELSE [Result("returned", <<>>, calls) EXCEPT
                                !.url = FileViewHref(videosBucketId, videoFileId)]

(***************************************************************************)
(* Actions of the catalog: one call at a time, then its result is taken.   *)
(***************************************************************************)
NoArgs ==
    [op |-> "none", sortOption |-> "", searchQuery |-> Undefined, page |-> 0,
     perPage |-> 0, videoId |-> Undefined, fetchFails |-> FALSE, failing |-> {}]

NoCatalogCall == [args |-> NoArgs, result |-> Result("none", <<>>, <<>>)]

Finish(args, result) ==
    /\ ret.args.op = "none"
    /\ ret' = [args |-> args, result |-> [result EXCEPT !.calls = <<>>]]
    /\ storageCalls' = result.calls
    /\ UNCHANGED <<documents, nonCatalogVars>>

\* When the database call fails no file is asked for, so which files would
\* fail is not part of the input.
Failures(fetchFails, files) == IF fetchFails THEN {{}} ELSE SUBSET files

GetAllVideos ==
    \E sortOption \in SortOptions, searchQuery \in Queries, fetchFails \in BOOLEAN :
    \E failing \in Failures(fetchFails, ThumbnailFiles) :
        Finish([NoArgs EXCEPT !.op = "getAllVideos", !.sortOption = sortOption,
                              !.searchQuery = searchQuery, !.fetchFails = fetchFails,
                              !.failing = failing],
               getAllVideos(documents, sortOption, searchQuery, fetchFails, failing))

GetVideo ==
    \E i \in 1..(MaxDocs + 1), fetchFails \in BOOLEAN :
    \E failing \in Failures(fetchFails, ThumbnailFiles) :
        Finish([NoArgs EXCEPT !.op = "getVideo", !.videoId = DocumentId(i),
                              !.fetchFails = fetchFails, !.failing = failing],
               getVideo(documents, DocumentId(i), fetchFails, failing))

GetVideosWithPagination ==
    \E page \in (-1)..MaxPage, perPage \in 1..MaxPerPage :
    \E sortOption \in SortOptions, searchQuery \in Queries, fetchFails \in BOOLEAN :
    \E failing \in Failures(fetchFails, ThumbnailFiles) :
        Finish([NoArgs EXCEPT !.op = "getVideosWithPagination", !.page = page,
                              !.perPage = perPage, !.sortOption = sortOption,
                              !.searchQuery = searchQuery, !.fetchFails = fetchFails,
                              !.failing = failing],
               getVideosWithPagination(documents, page, perPage, sortOption, searchQuery,
                                       fetchFails, failing))

GetVideoFileUrl ==
    \E i \in 1..(MaxDocs + 1), fetchFails \in BOOLEAN :
    \E failing \in Failures(fetchFails, ThumbnailFiles \cup VideoFiles) :
        Finish([NoArgs EXCEPT !.op = "getVideoFileUrl", !.videoId = DocumentId(i),
                              !.fetchFails = fetchFails, !.failing = failing],
               getVideoFileUrl(documents, DocumentId(i), fetchFails, failing))

\* The caller takes the result; the service is ready for the next call.
TakeResult ==
    /\ ret.args.op # "none"
    /\ ret' = NoCatalogCall
    /\ storageCalls' = <<>>
    /\ UNCHANGED <<documents, nonCatalogVars>>

NextCatalog ==
    \/ GetAllVideos
    \/ GetVideo
    \/ GetVideosWithPagination
    \/ GetVideoFileUrl
    \/ TakeResult

(***************************************************************************)
(* One stored record taken through normalizeVideo and then through the     *)
(* duration parser of the DURATION_DESC comparator.                        *)
(***************************************************************************)
NormOff == [pc |-> "off", stored |-> EmptyDocument, video |-> <<>>, seconds |-> Null]

\* The stored records: every duration of a day in whole seconds.
StoredDurations == {[EmptyDocument EXCEPT !.duration = Num(S)] : S \in 0..MaxSeconds}

\* The stored prices: absent, null, a number, and text that is empty, a
\* number, a number followed by letters, or no number at all.
StoredPrices ==
    {[EmptyDocument EXCEPT !.price = p] :
        p \in {Undefined, Null} \cup {Num(n) : n \in 0..MaxPrice}
                \cup {Str(<<>>), Str(<<"2", "0">>), Str(<<"2", "0", "a">>),
                      Str(<<"a", "b", "c">>)}}

NormalizeVideo ==
    /\ norm.pc = "stored"
    /\ norm' = [norm EXCEPT !.pc = "normalized", !.video = <<normalizeVideo(norm.stored)>>]
    /\ UNCHANGED nonNormVars

GetDurationInSeconds ==
    /\ norm.pc = "normalized"
    /\ norm' = [norm EXCEPT !.pc = "parsed",
                            !.seconds = getDurationInSeconds(norm.video[1].duration)]
    /\ UNCHANGED nonNormVars

NextNorm ==
    \/ NormalizeVideo
    \/ GetDurationInSeconds

(***************************************************************************)
(* Initial states of the schema manager's specifications.                  *)
(***************************************************************************)
DeclaredPairs == {<<c, k>> : c \in Collections, k \in
                     UNION {DeclaredKeys(d) : d \in Collections}}
                 \cap UNION {{<<c, k>> : k \in DeclaredKeys(c)} : c \in Collections}

RECURSIVE SubsetsUpTo(_, _)
SubsetsUpTo(S, k) ==
    IF k = 0 THEN {{}}
    ELSE LET prev == SubsetsUpTo(S, k - 1)
         IN prev \cup {T \cup {x} : T \in prev, x \in S}

\* The backend with the fields of `missing` missing, every other declared
\* field present, and the undeclared field in the videos collection.
Backend(missing) ==
    [c \in Collections |->
        [k \in {k \in DeclaredKeys(c) : <<c, k>> \notin missing}
               \cup (IF c = "videos" THEN {UndeclaredKey} ELSE {}) |-> Preexisting]]

SchemaIdle ==
    /\ task = [r \in Callers |-> [c \in Collections |-> IdleTask]]
    /\ run = [r \in Callers |-> [pc |-> "idle", runNo |-> 0, prevClean |-> FALSE]]

(***************************************************************************)
(* The parts of the state a specification does not use.                    *)
(***************************************************************************)
CatalogOff ==
    /\ documents = <<>>
    /\ ret = NoCatalogCall
    /\ storageCalls = <<>>

SchemaOff ==
    /\ attrs = [c \in Collections |-> <<>>]
    /\ SchemaIdle
    /\ budget = [r \in Callers |-> 0]

ViewsOff ==
    /\ views = Undefined
    /\ views0 = Undefined
    /\ inc = [k \in Calls |-> IdleInc]

\* A collection that was just created: none of its declared fields exists.
FreshCollection(c) == {<<c, k>> : k \in DeclaredKeys(c)}

\* The backends the schema manager is run against: any that lacks at most
\* MaxMissing declared fields, and any with one freshly created collection.
InitialBackends ==
    {Backend(missing) : missing \in SubsetsUpTo(DeclaredPairs, MaxMissing)}
    \cup {Backend(FreshCollection(c)) : c \in Collections}

\* One call of initializeSchema.
InitSchema ==
    /\ attrs \in InitialBackends
    /\ SchemaIdle
    /\ budget = [r \in Callers |-> IF r = 1 THEN 1 ELSE 0]
    /\ ViewsOff
    /\ CatalogOff
    /\ norm = NormOff

SpecSchema == InitSchema /\ [][NextSchema]_vars

\* One caller calling initializeSchema MaxRuns times in a row, against a
\* backend that is complete or has one freshly created collection.
InitRerun ==
    /\ attrs \in {Backend({})} \cup {Backend(FreshCollection(c)) : c \in Collections}
    /\ SchemaIdle
    /\ budget = [r \in Callers |-> IF r = 1 THEN MaxRuns ELSE 0]
    /\ ViewsOff
    /\ CatalogOff
    /\ norm = NormOff

SpecRerun == InitRerun /\ [][NextSchema]_vars

\* The backend in which the videos collection lacks its last two declared
\* fields.
LastKeys(c) ==
    {requiredAttributes(c)[j].key :
        j \in (Len(requiredAttributes(c)) - 1)..Len(requiredAttributes(c))}

OverlapBackends == {Backend({<<"videos", k>> : k \in LastKeys("videos")})}

\* Two callers, each calling initializeSchema once, at any time: their runs
\* may overlap.
InitOverlap ==
    /\ attrs \in OverlapBackends
    /\ SchemaIdle
    /\ budget = [r \in Callers |-> 1]
    /\ ViewsOff
    /\ CatalogOff
    /\ norm = NormOff

SpecOverlap == InitOverlap /\ [][NextSchema]_vars

\* Up to MaxCalls calls of incrementViews, overlapping in any way, on a
\* record whose views field is absent or holds 0..MaxViews0.
InitViews ==
    /\ views \in {Undefined} \cup {Num(n) : n \in 0..MaxViews0}
    /\ views0 = views
    /\ inc = [k \in Calls |-> IdleInc]
    /\ SchemaOff
    /\ CatalogOff
    /\ norm = NormOff

SpecViews == InitViews /\ [][NextViews]_vars

\* Catalog calls, one after the other, on any of the video collections.
InitCatalog ==
    /\ documents \in VideoCollections
    /\ ret = NoCatalogCall
    /\ storageCalls = <<>>
    /\ SchemaOff
    /\ ViewsOff
    /\ norm = NormOff

SpecCatalog == InitCatalog /\ [][NextCatalog]_vars

\* Normalization and duration parsing of one stored record.
InitNorm ==
    /\ norm \in {[NormOff EXCEPT !.pc = "stored", !.stored = d] :
                   d \in StoredDurations \cup StoredPrices}
    /\ SchemaOff
    /\ ViewsOff
    /\ CatalogOff

SpecNorm == InitNorm /\ [][NextNorm]_vars

(***************************************************************************)
(* Claims about the schema manager.                                        *)
(***************************************************************************)
Settled(t) == t.pc \in {"done", "caught"}

Complete(c) == DeclaredKeys(c) \subseteq DOMAIN attrs[c]

\* C1: whatever backend calls fail inside the four reconciliations,
\* initializeSchema never raises to its caller; when it has returned, all
\* four reconciliations have returned, a reconciliation ended in its catch
\* block only if one of its own calls failed, and every reconciliation none
\* of whose own calls failed ran to its end and left its collection with
\* every declared field, whatever happened to the other three.
C1_FailuresContained ==
    \A r \in Callers :
        /\ run[r].pc # "raised"
        /\ \A c \in Collections : task[r][c].pc # "rejected"
        /\ run[r].pc = "returned" =>
              \A c \in Collections :
                  /\ Settled(task[r][c])
                  /\ task[r][c].pc = "caught" <=> task[r][c].failed
                  /\ ~task[r][c].failed => task[r][c].pc = "done" /\ Complete(c)

\* C1 witness: initializeSchema has returned although one reconciliation's
\* call failed, while another reconciliation created a field and finished.
C1_Witness ==
    \E r \in Callers, c, d \in Collections :
        /\ run[r].pc = "returned"
        /\ task[r][c].failed
        /\ c # d /\ task[r][d].pc = "done" /\ Len(task[r][d].issued) > 0

NoCreates(r) == \A c \in Collections : task[r][c].issued = <<>>

C3_CleanRunCompletes ==
    \A r \in Callers :
        (run[r].pc = "returned" /\ \A c \in Collections : ~task[r][c].failed)
            => \A c \in Collections : Complete(c)

\* C3 witness: a first run failed partway and left a collection partly
\* provisioned; the second run, in which nothing failed, created the fields
\* still missing and has returned.
C3_Witness ==
    \E r \in Callers :
        /\ run[r].runNo = 2 /\ ~run[r].prevClean /\ run[r].pc = "returned"
        /\ \A c \in Collections : ~task[r][c].failed
        /\ \E c \in Collections :
              /\ Len(task[r][c].issued) > 0
              /\ task[r][c].existing \cap DeclaredKeys(c) # {}
              /\ \E k \in task[r][c].existing : attrs[c][k] # Preexisting

\* C4: in every step, each create-field call a reconciliation has issued is
\* for a declared key that was absent from the field list it fetched, no
\* key is created twice by it, and every field a collection has stays in the
\* collection with its definition unchanged.
C4_OnlyCreatesMissing ==
    [][ /\ \A r \in Callers, c \in Collections :
              LET t == task'[r][c] IN
              \A i \in 1..Len(t.issued) :
                  /\ t.issued[i].key \in DeclaredKeys(c)
                  /\ t.issued[i].key \notin t.existing
                  /\ t.issued[i].method # "none"
                  /\ \A j \in 1..Len(t.issued) :
                        t.issued[j].key = t.issued[i].key => j = i
        /\ \A c \in Collections : \A k \in DOMAIN attrs[c] :
              k \in DOMAIN attrs'[c] /\ attrs'[c][k] = attrs[c][k]
      ]_vars

\* C4 witness: a reconciliation of the videos collection, which holds an
\* undeclared field and declared ones, has created a missing field.
C4_Witness ==
    \E r \in Callers :
        /\ Len(task[r]["videos"].issued) > 0
        /\ task[r]["videos"].existing \cap DeclaredKeys("videos") # {}
        /\ UndeclaredKey \in task[r]["videos"].existing
        /\ task[r]["videos"].issued[1].key \in DOMAIN attrs["videos"]

(***************************************************************************)
(* Claims about incrementViews.                                            *)
(***************************************************************************)
\* The count a stored views value stands for: an absent one counts as 0.
AsCount(v) == IF v.t = "number" THEN v.n ELSE 0

Succeeded(k) == inc[k].pc = "returned" /\ inc[k].failedAt = ""

\* C5: on a record with views = 0, when exactly two incrementViews calls
\* were made, both read the count before either wrote (both read 0) and
\* both returned without any failure, the stored count is 1: one increment
\* is lost, and neither call failed or raised because of it.
C5_LostUpdate ==
    \A a, b \in Calls :
        ( /\ a # b
          /\ views0 = Num(0)
          /\ Succeeded(a) /\ Succeeded(b)
          /\ inc[a].currentViews = 0 /\ inc[b].currentViews = 0
          /\ \A k \in Calls \ {a, b} : inc[k].pc = "idle" )
        => views = Num(1)

\* C5 witness: two overlapping calls on a views = 0 record both read 0 and
\* both succeeded, and the count is 1.
C5_Witness ==
    \E a, b \in Calls :
        /\ a # b /\ views0 = Num(0)
        /\ Succeeded(a) /\ Succeeded(b)
        /\ inc[a].overlapped /\ inc[b].overlapped
        /\ inc[a].currentViews = 0 /\ inc[b].currentViews = 0
        /\ views = Num(1)

\* C6: as long as no two incrementViews calls have overlapped and no
\* backend call has failed, every call that has returned changed the
\* stored count from v to v + 1 (an absent count to 1), and after n such
\* calls the count is the initial count plus n.
C6_SequentialIncrements ==
    LET returned == {k \in Calls : inc[k].pc = "returned"}
    IN (\A k \in Calls : ~inc[k].overlapped /\ inc[k].failedAt = "")
       => /\ \A k \in returned : inc[k].after = Num(AsCount(inc[k].before) + 1)
          /\ AsCount(views) = AsCount(views0) + Cardinality(returned)
          /\ returned = {} => views = views0
          /\ returned # {} => views.t = "number"

\* C6 witness: MaxCalls calls have run one after the other without failure
\* on a record whose count was absent.
C6_Witness ==
    /\ views0 = Undefined
    /\ \A k \in Calls : Succeeded(k) /\ ~inc[k].overlapped
    /\ views = Num(MaxCalls)

\* C7: in every step, no incrementViews call raises to its caller; a call
\* whose read of the record failed has issued no write; and a step in which
\* a read or a write fails leaves the stored count unchanged and ends the
\* call with a normal return.
C7_IncrementNeverRaises ==
    [][ \A k \in Calls :
          /\ inc'[k].pc # "raised"
          /\ inc'[k].failedAt = "getDocument" => ~inc'[k].updated
          /\ (inc[k].failedAt = "" /\ inc'[k].failedAt # "")
                => views' = views /\ inc'[k].pc = "returned" /\ inc'[k].after = views
      ]_vars

\* C7 witness: one call has returned after its read failed and another
\* after its write failed, and the stored count is the initial one.
C7_Witness ==
    \E a, b \in Calls :
        /\ inc[a].pc = "returned" /\ inc[a].failedAt = "getDocument"
        /\ inc[b].pc = "returned" /\ inc[b].failedAt = "updateDocument"
        /\ views = views0

(***************************************************************************)
(* Claims about the video catalog.                                         *)
(***************************************************************************)
Listing == ret.args.op \in {"getAllVideos", "getVideosWithPagination"}

\* C8: when the base fetch of the video records fails, getAllVideos raises
\* the failure to its caller and issues no thumbnail-resolution call, and
\* getVideosWithPagination raises it too instead of returning an empty page.
C8_FetchFailureRaises ==
    (Listing /\ ret.args.fetchFails)
        => /\ ret.result.outcome = "raised"
           /\ storageCalls = <<>>

\* A paginated listing, and a plain one, of a collection with thumbnails to
\* resolve whose base fetch failed.
C8_Witness ==
    /\ ret.args.op = "getVideosWithPagination"
    /\ ret.args.fetchFails
    /\ ret.result.outcome = "raised"
    /\ \E i \in 1..Len(documents) : ~Falsy(documents[i].thumbnail_id)

\* The stored record a view was made from.
StoredRecord(video) == documents[CHOOSE i \in 1..Len(documents) : documents[i].id = video.id]

\* The URL a view must carry: the resolved one when the stored record has a
\* thumbnail reference whose resolution succeeds, the placeholder otherwise.
ExpectedThumbnailUrl(video) ==
    LET reference == StoredRecord(video).thumbnail_id
    IN IF ~Falsy(reference) /\ reference \notin ret.args.failing
       THEN Str(<<"https://backend/storage/", "thumbnails", "/">> \o reference.s \o <<"/view">>)
       ELSE Str(<<"https://via.placeholder.com/300x180?text=Video+Thumbnail">>)

ThumbnailUrlOk(video) ==
    /\ video.thumbnailUrl.t = "string"
    /\ video.thumbnailUrl.s # <<>>
    /\ video.thumbnailUrl = ExpectedThumbnailUrl(video)

\* The identifiers of the stored records the search keeps.
SurvivingIds ==
    {documents[i].id : i \in {i \in 1..Len(documents) :
        ~HasQuery(ret.args.searchQuery)
            \/ Matches(normalizeVideo(documents[i]), ret.args.searchQuery)}}

Window(all, lo, hi) == [i \in 1..(hi - lo) |-> all[lo + i]]

\* Pages 1..p of `all`, as the service cuts them, one after the other.
RECURSIVE PagesUpTo(_, _, _)
PagesUpTo(all, perPage, p) ==
    IF p = 0 THEN <<>>
    ELSE PagesUpTo(all, perPage, p - 1)
            \o slice(all, StartIndex(p, perPage), EndIndex(p, perPage))

\* C10: for a sorted and filtered list of count records, perPage >= 1 and
\* 1 <= page <= totalPages, getVideosWithPagination returns totalPages =
\* ceil(count / perPage) and exactly the records at the indices
\* [(page-1)*perPage, min(page*perPage, count)) of the getAllVideos result in
\* the same order, so that pages 1..totalPages one after the other are the
\* getAllVideos result, no record repeated or missing.
C10_PageWindow ==
    (/\ ret.args.op = "getVideosWithPagination"
     /\ ret.result.outcome = "returned"
     /\ ret.args.perPage >= 1
     /\ 1 <= ret.args.page
     /\ ret.args.page <= ret.result.totalPages)
        => LET count == Len(ret.result.all)
               perPage == ret.args.perPage
               page == ret.args.page
               upper == IF page * perPage < count THEN page * perPage ELSE count
           IN /\ ret.result.all
                    = getAllVideos(documents, ret.args.sortOption, ret.args.searchQuery,
                                   FALSE, ret.args.failing).videos
              /\ ret.result.totalPages * perPage >= count
              /\ (ret.result.totalPages - 1) * perPage < count
              /\ ret.result.videos = Window(ret.result.all, (page - 1) * perPage, upper)
              /\ PagesUpTo(ret.result.all, perPage, ret.result.totalPages) = ret.result.all

\* The last, shorter page of a list of three records cut in pages of two.
C10_Witness ==
    /\ ret.args.op = "getVideosWithPagination"
    /\ ret.result.outcome = "returned"
    /\ Len(ret.result.all) = 3
    /\ ret.args.perPage = 2
    /\ ret.args.page = 2
    /\ ret.result.totalPages = 2
    /\ ret.result.videos = <<ret.result.all[3]>>

\* C11: for every page number outside 1..totalPages (greater than
\* totalPages, zero, or negative), getVideosWithPagination returns an empty
\* video list and does not raise.
C11_OutOfRangePageEmpty ==
    (/\ ret.args.op = "getVideosWithPagination"
     /\ ~ret.args.fetchFails
     /\ (ret.args.page < 1 \/ ret.args.page > ret.result.totalPages))
        => /\ ret.result.outcome = "returned"
           /\ ret.result.videos = <<>>

\* The stored record a call names, if the fetch finds one.
Found ==
    /\ ~ret.args.fetchFails
    /\ \E i \in 1..Len(documents) : documents[i].id = ret.args.videoId

FoundRecord == documents[CHOOSE i \in 1..Len(documents) : documents[i].id = ret.args.videoId]

VideoBucketCalls == {i \in 1..Len(storageCalls) : storageCalls[i].bucket = "videos"}

\* The video file reference of a stored record under either of its names.
EitherVideoReference(record) ==
    IF ~Falsy(record.video_id) THEN record.video_id ELSE record.videoFileId

\* C12: getVideoFileUrl never raises: it returns absent when the record
\* fetch fails or the record is missing, when the record has no video file
\* reference, and when URL resolution of the video file fails, in the first
\* two cases without calling the video bucket; otherwise it returns the
\* resolved video URL, whatever the outcome of the thumbnail resolution done
\* while loading the record.
C12_FileUrlAbsentOrResolved ==
    (ret.args.op = "getVideoFileUrl")
        => /\ ret.result.outcome = "returned"
           /\ IF ~Found \/ Falsy(EitherVideoReference(FoundRecord))
              THEN ret.result.url = Null /\ VideoBucketCalls = {}
              ELSE IF EitherVideoReference(FoundRecord) \in ret.args.failing
                   THEN ret.result.url = Null
                   ELSE ret.result.url
                           = Str(<<"https://backend/storage/", "videos", "/">>
                                     \o EitherVideoReference(FoundRecord).s \o <<"/view">>)

\* C13: getVideo never raises: it returns an absent result both when the
\* backend reports the record missing and when the record fetch fails for
\* any other reason, and returns the normalized record in every case where
\* the fetch succeeds.
C13_GetVideoNeverRaises ==
    (ret.args.op = "getVideo")
        => /\ ret.result.outcome = "returned"
           /\ IF Found
              THEN /\ Len(ret.result.video) = 1
                   /\ ret.result.video[1].id = ret.args.videoId
                   /\ [ret.result.video[1] EXCEPT !.thumbnailUrl = Null]
                         = [normalizeVideo(FoundRecord) EXCEPT !.thumbnailUrl = Null]
              ELSE /\ ret.result.video = <<>>
                   /\ storageCalls = <<>>

\* A fetch of a stored record that failed, answered with an absent result.
C13_Witness ==
    /\ ret.args.op = "getVideo"
    /\ ret.args.fetchFails
    /\ \E i \in 1..Len(documents) : documents[i].id = ret.args.videoId
    /\ ret.result.outcome = "returned"
    /\ ret.result.video = <<>>

\* C14: for every integer number of seconds S in [0, 86400), formatting S
\* into the display string as normalizeVideo does and parsing that string
\* back with the parser of DURATION_DESC yields S.
C14_DurationRoundTrip ==
    (norm.pc = "parsed" /\ norm.stored.duration.t = "number")
        => norm.seconds = norm.stored.duration

\* The last second of a day, shown as 23:59:59 and parsed back.
C14_Witness ==
    /\ norm.pc = "parsed"
    /\ norm.stored.duration = Num(86399)
    /\ norm.video[1].duration = Str(<<"2", "3", ":", "5", "9", ":", "5", "9">>)
    /\ norm.seconds = Num(86399)

\* The key a sort option orders by: the creation time, the price, the view
\* count of the view, and the stored duration in seconds.
SortKey(sortOption, video) ==
    CASE sortOption = "newest" -> getTime(video.createdAt)
      [] sortOption \in {"price_asc", "price_desc"} -> video.price
      [] sortOption = "views_desc" -> video.views
      [] sortOption = "duration_desc" ->
            IF StoredRecord(video).duration.t = "number"
            THEN StoredRecord(video).duration ELSE Num(0)

InOrder(sortOption, a, b) ==
    LET ka == SortKey(sortOption, a)
        kb == SortKey(sortOption, b)
    IN /\ ka.t = "number"
       /\ kb.t = "number"
       /\ IF sortOption = "price_asc" THEN ka.n <= kb.n ELSE ka.n >= kb.n

\* C15: for every sortOption, getAllVideos returns a permutation of the
\* filtered records in which every adjacent pair is ordered by that option's
\* key: NEWEST non-increasing creation timestamp, PRICE_ASC non-decreasing
\* price, PRICE_DESC non-increasing price, VIEWS_DESC non-increasing view
\* count, DURATION_DESC non-increasing duration in seconds.
C15_SortedByKey ==
    (ret.args.op = "getAllVideos" /\ ret.result.outcome = "returned")
        => /\ {ret.result.videos[i].id : i \in 1..Len(ret.result.videos)} = SurvivingIds
           /\ Len(ret.result.videos) = Cardinality(SurvivingIds)
           /\ \A i \in 1..(Len(ret.result.videos) - 1) :
                 InOrder(ret.args.sortOption, ret.result.videos[i], ret.result.videos[i + 1])

\* A stored price is numeric when it is a number or text that is a number.
NumericPrice(price) ==
    \/ price.t = "number"
    \/ /\ price.t = "string"
       /\ price.s # <<>>
       /\ \A i \in 1..Len(price.s) : price.s[i] \in {"0", "1", "2", "3", "4", "5", "6", "7", "8", "9"}

\* C16: for every stored record, normalization yields a price that is a
\* number >= 0, and yields exactly 0 when the stored price is not numeric
\* (absent, or a string that is not a number).
C16_PriceNonNegativeNumber ==
    (norm.pc = "normalized")
        => /\ norm.video[1].price.t = "number"
           /\ norm.video[1].price.n >= 0
           /\ ~NumericPrice(norm.stored.price) => norm.video[1].price = Num(0)

\* The declaration of a key of a collection.
Declared(c, key) ==
    requiredAttributes(c)[CHOOSE i \in 1..Len(requiredAttributes(c)) :
                              requiredAttributes(c)[i].key = key]

\* A create-field call carries what the declaration says.
CarriesDeclaration(call, a) ==
    /\ call.required = a.required
    /\ a.defaultValue # Undefined => call.default = a.defaultValue
    /\ a.min # Undefined => call.min = a.min
    /\ a.max # Undefined => call.max = a.max
    /\ a.array # Undefined => call.array = a.array
    /\ call.method = CASE a.type \in {"string", "string[]"} -> "createStringAttribute"
                       [] a.type = "integer" -> "createIntegerAttribute"
                       [] a.type = "double" -> "createFloatAttribute"
                       [] a.type = "boolean" -> "createBooleanAttribute"
                       [] a.type = "datetime" -> "createDatetimeAttribute"

\* C17: every create-field call issued by reconciliation carries the
\* required flag, default value and numeric bounds declared for that field:
\* views is created with min 0 and default 0, price and duration with min 0,
\* is_active with default true, and crypto as a string array.
C17_CreateCallCarriesDeclaration ==
    \A r \in Callers, c \in Collections :
        \A i \in 1..Len(task[r][c].issued) :
            CarriesDeclaration(task[r][c].issued[i], Declared(c, task[r][c].issued[i].key))

\* The thumbnail reference of a stored record under either of its names.
EitherThumbnailReference(record) ==
    IF ~Falsy(record.thumbnail_id) THEN record.thumbnail_id ELSE record.thumbnailFileId

AsksFileStore(reference) ==
    \E i \in 1..Len(storageCalls) :
        storageCalls[i] = [bucket |-> "thumbnails", fileId |-> reference]

ThumbnailFromEitherName(video) ==
    LET reference == EitherThumbnailReference(StoredRecord(video))
    IN /\ ~Falsy(reference) => AsksFileStore(reference)
       /\ video.thumbnailUrl = Str(<<"https://via.placeholder.com/300x180?text=Video+Thumbnail">>)
             => (Falsy(reference) \/ reference \in ret.args.failing)

\* C18: for a stored record whose thumbnail reference is populated under
\* either of the two field names (thumbnail_id or thumbnailFileId),
\* getAllVideos and getVideo ask the file store for that reference; the
\* placeholder URL is used only when neither field is populated or the
\* resolution fails.
C18_EitherThumbnailFieldResolved ==
    /\ (ret.args.op = "getAllVideos" /\ ret.result.outcome = "returned")
          => \A i \in 1..Len(ret.result.videos) : ThumbnailFromEitherName(ret.result.videos[i])
    /\ (ret.args.op = "getVideo" /\ ret.result.video # <<>>)
          => ThumbnailFromEitherName(ret.result.video[1])

\* A reconciliation one of whose create-field calls failed (a failed field
\* list fetch leaves no call issued); t.idx is the position of the field the
\* last call was for.
CreateFailed(t) == t.failed /\ t.issued # <<>>

KeyAt(c, j) == requiredAttributes(c)[j].key

StoppedAtFailure(c, t) ==
    /\ t.pc = "caught"
    /\ t.issued[Len(t.issued)].key = KeyAt(c, t.idx)
    /\ KeyAt(c, t.idx) \notin DOMAIN attrs[c]
    /\ \A i \in 1..(Len(t.issued) - 1) : t.issued[i].key \in DOMAIN attrs[c]
    /\ \A j \in (t.idx + 1)..Len(requiredAttributes(c)) :
          /\ \A i \in 1..Len(t.issued) : t.issued[i].key # KeyAt(c, j)
          /\ KeyAt(c, j) \notin t.existing => KeyAt(c, j) \notin DOMAIN attrs[c]

\* C19: when a create-field call fails during one collection's
\* reconciliation, no further create-field call is issued for that
\* collection in that run: the declared fields that come after the failing
\* one in declaration order stay missing until a later run, while the fields
\* created before it stay created.
C19_CreateFailureStopsCollection ==
    /\ [](\A c \in Collections : CreateFailed(task[1][c]) => StoppedAtFailure(c, task[1][c]))
    /\ [][\A c \in Collections :
             (CreateFailed(task[1][c]) /\ run'[1].runNo = run[1].runNo)
                 => task'[1][c] = task[1][c]]_vars

\* A reconciliation stopped by a failed create-field call after a field it
\* had created and before a field that is still missing.
C19_Witness ==
    \E c \in Collections :
        /\ CreateFailed(task[1][c])
        /\ Len(task[1][c].issued) >= 2
        /\ task[1][c].idx < Len(requiredAttributes(c))
        /\ KeyAt(c, Len(requiredAttributes(c))) \notin DOMAIN attrs[c]

\* The positions of the declaration list a reconciliation's loop has dealt
\* with so far.
Passed(c, t) ==
    1..(IF t.idx < Len(requiredAttributes(c)) THEN t.idx ELSE Len(requiredAttributes(c)))

\* C20: each reconciliation decides which fields are missing from the
\* single field-list snapshot read at its start and does not re-check before
\* creating: the create-field calls it has issued are those for the declared
\* fields it has come to that its snapshot lacks, whatever the collection
\* holds by then.  So when two initializeSchema runs overlap on a collection
\* that lacks a declared field, both runs can issue a create-field call for
\* the same key.
C20_CreatesDecidedFromSnapshot ==
    \A r \in Callers, c \in Collections :
        {task[r][c].issued[i].key : i \in 1..Len(task[r][c].issued)}
            = {KeyAt(c, j) : j \in {j \in Passed(c, task[r][c]) :
                                       KeyAt(c, j) \notin task[r][c].existing}}

\* Two overlapping runs that have both issued a create-field call for the
\* same key of the same collection, one of them still pending when the
\* other has created the field.
C20_Witness ==
    \E c \in Collections :
        /\ run[1].pc = "awaiting"
        /\ run[2].pc = "awaiting"
        /\ task[1][c].issued # <<>>
        /\ task[2][c].issued # <<>>
        /\ task[1][c].issued[1].key = task[2][c].issued[1].key
        /\ task[1][c].issued[1].key \in DOMAIN attrs[c]
        /\ task[2][c].pc = "create"

\* The incrementViews calls that have been made.
Made == {k \in Calls : inc[k].pc # "idle"}

\* C21: for n incrementViews calls (n >= 1) on one record with initial
\* count v, interleaved in any way and all succeeding, the count after all
\* have finished is at least v+1 and at most v+n.
C21_IncrementsBounded ==
    (Made # {} /\ \A k \in Made : Succeeded(k))
        => /\ views.t = "number"
           /\ views.n >= AsCount(views0) + 1
           /\ views.n <= AsCount(views0) + Cardinality(Made)

\* Every call was made and succeeded, the calls overlapped, and one
\* increment was lost while the others were kept.
C21_Witness ==
    /\ Made = Calls
    /\ \A k \in Calls : Succeeded(k) /\ inc[k].overlapped
    /\ views0 = Num(MaxViews0)
    /\ views = Num(MaxViews0 + MaxCalls - 1)

====
